---- MODULE Spec2Model ----
(***************************************************************************)
(* A model of the CHIP-8 interpreter of ratschance/chip-8 (src/src/cpu.rs) *)
(* together with the calls its host (src/src/main.rs) makes on it: tick,   *)
(* set_key_pressed and set_key_released.                                   *)
(*                                                                         *)
(* The Cpu struct is modelled field by field.  Every instruction is an     *)
(* operator from a Cpu record to a Cpu record, named as in cpu.rs; tick,   *)
(* set_key_pressed and set_key_released are operators of the same shape    *)
(* and the actions Tick, SetKeyPressed and SetKeyReleased apply them to    *)
(* the variables.  A Rust panic (an index out of bounds, an explicit       *)
(* panic!) ends the process: it is the field panicked, after which no      *)
(* action is enabled.                                                      *)
(***************************************************************************)
EXTENDS Integers, Sequences, FiniteSets, TLC

VARIABLES
    v,               \* registers.v: [u8; 16]
    i,               \* registers.i: u16
    delay_timer,     \* registers.delay_timer: u8
    sound_timer,     \* registers.sound_timer: u8
    pc,              \* registers.pc: u16
    sp,              \* registers.sp: u8
    stack,           \* registers.stack: [u16; 16]
    memory,          \* Cpu.memory: [u8; 4096], as its non-zero bytes by address
    display,         \* Cpu.display: [[bool; 64]; 32], as the set of <<row, column>> that are true
    key_state,       \* Cpu.key_state: [bool; 16]
    waiting,         \* Cpu.waiting: Option<usize>
    has_disp_update, \* Cpu.has_disp_update: bool
    cycle_count,     \* Cpu.cycle_count: usize
    panicked,        \* the process has panicked
    last             \* the host's most recent call on the Cpu: the call, its key, and the
                     \* word a tick fetched

vars == <<v, i, delay_timer, sound_timer, pc, sp, stack, memory, display,
          key_state, waiting, has_disp_update, cycle_count, panicked, last>>

---------------------------------------------------------------------------
(* Program constants *)

C8_WIDTH == 64
C8_HEIGHT == 32
MemSize == 4096
RomBase == 512
NumRegs == 16
StackSize == 16
NumKeys == 16
TimerPeriod == 8

(* Bounds of the model *)

\* Tick is disabled once cycle_count reaches MaxTicks.
MaxTicks == 17
\* A ROM is ProgLen instruction words long.
ProgLen == 3

---------------------------------------------------------------------------
(* Option<usize>: None is the empty sequence, Some(x) the sequence <<x>>. *)

None == << >>
Some(x) == <<x>>

(* Bitwise operations on u8, bit by bit. *)

RECURSIVE BitAnd(_, _)
BitAnd(a, b) ==
    IF a = 0 \/ b = 0 THEN 0
    ELSE (a % 2) * (b % 2) + 2 * BitAnd(a \div 2, b \div 2)

RECURSIVE BitOr(_, _)
BitOr(a, b) ==
    IF a = 0 THEN b
    ELSE IF b = 0 THEN a
    ELSE (IF a % 2 = 1 \/ b % 2 = 1 THEN 1 ELSE 0) + 2 * BitOr(a \div 2, b \div 2)

RECURSIVE BitXor(_, _)
BitXor(a, b) ==
    IF a = 0 THEN b
    ELSE IF b = 0 THEN a
    ELSE (((a % 2) + (b % 2)) % 2) + 2 * BitXor(a \div 2, b \div 2)

---------------------------------------------------------------------------
(* Opcode::from_op *)

from_op(op) ==
    [a   |-> (op \div 4096) % 16,
     kk  |-> op % 256,
     n   |-> op % 16,
     nnn |-> op % 4096,
     x   |-> (op \div 256) % 16,
     y   |-> (op \div 16) % 16]

(* The built-in font, Cpu::load_sprites *)

sprites ==
    << 240, 144, 144, 144, 240,
        32,  96,  32,  32, 112,
       240,  16, 240, 128, 240,
       240,  16, 240,  16, 240,
       144, 144, 240,  16,  16,
       240, 128, 240,  16, 240,
       240, 128, 240, 144, 240,
       240,  16,  32,  64,  64,
       240, 144, 240, 144, 240,
       240, 144, 240,  16, 240,
       240, 144, 240, 144, 144,
       224, 144, 224, 144, 224,
       240, 128, 128, 128, 240,
       224, 144, 144, 144, 224,
       240, 128, 240, 128, 240,
       240, 128, 240, 128, 128 >>

\* a panic that returns to the caller
Panic_returns(c) == c

(* A panic: the process ends. The fields keep what had been written. *)
Panic(c) == [c EXCEPT !.panicked = TRUE]

(* Cpu.memory holds 4096 bytes, nearly all of them zero: the model keeps the  *)
(* function from the addresses of the non-zero bytes to those bytes.  Peek is *)
(* the read memory[a] and Poke the write memory[a] = b, for a in 0..4095; the *)
(* index check that makes Rust panic is made where the instruction indexes.   *)
Peek(mem, a) == IF a \in DOMAIN mem THEN mem[a] ELSE 0

Poke(mem, a, b) ==
    IF b = 0 THEN [k \in DOMAIN mem \ {a} |-> mem[k]]
    ELSE [k \in DOMAIN mem \cup {a} |-> IF k = a THEN b ELSE mem[k]]

(* Cpu.display holds 32 rows of 64 booleans: the model keeps the set of the   *)
(* <<row, column>> whose pixel is true.  Pixel is the read display[r][k] and  *)
(* Flip the write display[r][k] ^= true.                                      *)
Pixel(disp, r, k) == <<r, k>> \in disp

Flip(disp, r, k) == IF <<r, k>> \in disp THEN disp \ {<<r, k>>} ELSE disp \cup {<<r, k>>}

---------------------------------------------------------------------------
(* The instructions, cpu.rs lines 257-488 *)

cls(c) ==
    [c EXCEPT !.display = {}, !.has_disp_update = TRUE]

\* ret that moves the stack pointer before it reads the stack
ret_predecrement(c) ==
    IF c.sp = 0 THEN Panic(c)
    ELSE [c EXCEPT !.pc = c.stack[c.sp - 1], !.sp = c.sp - 1]

ret(c) ==
    IF c.sp = 0 THEN Panic(c)
    ELSE [c EXCEPT !.pc = c.stack[c.sp], !.sp = c.sp - 1]

sys(c, nnn) == c

jp(c, nnn) == [c EXCEPT !.pc = nnn]

\* call whose stack pointer wraps to 0 where the index would be out of bounds
call_wraps(c, nnn) ==
    LET c1 == [c EXCEPT !.sp = (c.sp + 1) % StackSize]
    IN  [c1 EXCEPT !.stack[c1.sp] = c.pc, !.pc = nnn]

call(c, nnn) ==
    LET c1 == [c EXCEPT !.sp = c.sp + 1]
    IN  IF c1.sp >= StackSize THEN Panic(c1)
        ELSE [c1 EXCEPT !.stack[c1.sp] = c.pc, !.pc = nnn]

sec(c, x, kk) == IF c.v[x] = kk THEN [c EXCEPT !.pc = @ + 2] ELSE c

snec(c, x, kk) == IF c.v[x] # kk THEN [c EXCEPT !.pc = @ + 2] ELSE c

se(c, x, y) == IF c.v[x] = c.v[y] THEN [c EXCEPT !.pc = @ + 2] ELSE c

ldc(c, x, kk) == [c EXCEPT !.v[x] = kk]

addc(c, x, kk) == [c EXCEPT !.v[x] = (@ + kk) % 256]

ld(c, x, y) == [c EXCEPT !.v[x] = c.v[y]]

or(c, x, y) == [c EXCEPT !.v[x] = BitOr(@, c.v[y])]

and(c, x, y) == [c EXCEPT !.v[x] = BitAnd(@, c.v[y])]

xor(c, x, y) == [c EXCEPT !.v[x] = BitXor(@, c.v[y])]

\* add that writes the carry before the sum
add_carry_first(c, x, y) ==
    LET sum == c.v[x] + c.v[y]
        c1 == [c EXCEPT !.v[15] = IF sum > 255 THEN 1 ELSE 0]
    IN  [c1 EXCEPT !.v[x] = sum % 256]

add(c, x, y) ==
    LET sum == c.v[x] + c.v[y]
        c1 == [c EXCEPT !.v[x] = sum % 256]
    IN  [c1 EXCEPT !.v[15] = IF sum > 255 THEN 1 ELSE 0]

\* sub whose flag is the borrow itself
sub_flags_borrow(c, x, y) ==
    LET borrow == c.v[x] < c.v[y]
        c1 == [c EXCEPT !.v[x] = (c.v[x] - c.v[y]) % 256]
    IN  [c1 EXCEPT !.v[15] = IF borrow THEN 1 ELSE 0]

sub(c, x, y) ==
    LET borrow == c.v[x] < c.v[y]
        c1 == [c EXCEPT !.v[x] = (c.v[x] - c.v[y]) % 256]
    IN  [c1 EXCEPT !.v[15] = IF borrow THEN 0 ELSE 1]

shr(c, x) ==
    LET c1 == [c EXCEPT !.v[15] = c.v[x] % 2]
    IN  [c1 EXCEPT !.v[x] = c1.v[x] \div 2]

subn(c, x, y) ==
    LET borrow == c.v[y] < c.v[x]
        c1 == [c EXCEPT !.v[x] = (c.v[y] - c.v[x]) % 256]
    IN  [c1 EXCEPT !.v[15] = IF borrow THEN 0 ELSE 1]

shl(c, x) ==
    LET c1 == [c EXCEPT !.v[15] = (c.v[x] \div 128) % 2]
    IN  [c1 EXCEPT !.v[x] = (c1.v[x] * 2) % 256]

sne(c, x, y) == IF c.v[x] # c.v[y] THEN [c EXCEPT !.pc = @ + 2] ELSE c

ldi(c, nnn) == [c EXCEPT !.i = nnn]

jp0(c, nnn) == [c EXCEPT !.pc = nnn + c.v[0]]

\* rnd is the byte rng.gen::<u8>() returns
rnd(c, x, kk, byte) == [c EXCEPT !.v[x] = BitAnd(byte, kk)]

\* The inner loop of drw, from column j on: v[x] is read at every column.
RECURSIVE drw_cols(_, _, _, _, _)
drw_cols(c, x, i_offset, sprite, j) ==
    IF j >= 8 THEN c
    ELSE LET j_offset == (c.v[x] + j) % C8_WIDTH
             pixel == (sprite \div (2 ^ (7 - j))) % 2
             c1 == IF Pixel(c.display, i_offset, j_offset)
                   THEN [c EXCEPT !.v[15] = 1]
                   ELSE c
             c2 == [c1 EXCEPT !.display = Flip(@, i_offset, j_offset)]
         IN  drw_cols(IF pixel = 1 THEN c2 ELSE c, x, i_offset, sprite, j + 1)

\* The outer loop of drw, from row r on: v[y] is read at every row.
RECURSIVE drw_rows(_, _, _, _, _)
drw_rows(c, x, y, n, r) ==
    IF r >= n THEN c
    ELSE LET i_offset == (c.v[y] + r) % C8_HEIGHT
         IN  IF c.i + r >= MemSize THEN Panic(c)
             ELSE drw_rows(drw_cols(c, x, i_offset, Peek(c.memory, c.i + r), 0), x, y, n, r + 1)

drw(c, x, y, n) ==
    LET c1 == drw_rows([c EXCEPT !.v[15] = 0], x, y, n, 0)
    IN  IF c1.panicked THEN c1 ELSE [c1 EXCEPT !.has_disp_update = TRUE]

skp(c, x) ==
    IF c.v[x] >= NumKeys THEN Panic(c)
    ELSE IF c.key_state[c.v[x]] THEN [c EXCEPT !.pc = @ + 2] ELSE c

sknp(c, x) ==
    IF c.v[x] >= NumKeys THEN Panic(c)
    ELSE IF ~c.key_state[c.v[x]] THEN [c EXCEPT !.pc = @ + 2] ELSE c

ldxdt(c, x) == [c EXCEPT !.v[x] = c.delay_timer]

ldxk(c, x) == [c EXCEPT !.waiting = Some(x)]

lddtx(c, x) == [c EXCEPT !.delay_timer = c.v[x]]

ldstx(c, x) == [c EXCEPT !.sound_timer = c.v[x]]

\* addi whose flag is the overflow of the 12-bit address space
addi_flags_12bit(c, x) ==
    LET sum == c.i + c.v[x]
        c1 == [c EXCEPT !.i = sum % 65536]
    IN  [c1 EXCEPT !.v[15] = IF sum > 4095 THEN 1 ELSE 0]

\* addi that keeps I within the 12-bit address space
addi_wraps_12bit(c, x) ==
    LET sum == c.i + c.v[x]
        c1 == [c EXCEPT !.i = sum % 4096]
    IN  [c1 EXCEPT !.v[15] = IF sum > 65535 THEN 1 ELSE 0]

addi(c, x) ==
    LET sum == c.i + c.v[x]
        c1 == [c EXCEPT !.i = sum % 65536]
    IN  [c1 EXCEPT !.v[15] = IF sum > 65535 THEN 1 ELSE 0]

ldf(c, x) == [c EXCEPT !.i = c.v[x] * 5]

\* ldb whose second byte is val / 10, not reduced to a digit
ldb_tens_whole(c, x) ==
    LET val == c.v[x]
        addr == c.i
    IN  IF addr + 2 >= MemSize THEN Panic(c)
        ELSE [c EXCEPT !.memory =
                 Poke(Poke(Poke(@, addr, val \div 100), addr + 1, val \div 10),
                      addr + 2, val % 10)]

ldb(c, x) ==
    LET val == c.v[x]
        addr == c.i
    IN  IF addr >= MemSize THEN Panic(c)
        ELSE IF addr + 1 >= MemSize
             THEN Panic([c EXCEPT !.memory = Poke(@, addr, val \div 100)])
        ELSE IF addr + 2 >= MemSize
             THEN Panic([c EXCEPT !.memory =
                            Poke(Poke(@, addr, val \div 100), addr + 1, (val \div 10) % 10)])
        ELSE [c EXCEPT !.memory =
                 Poke(Poke(Poke(@, addr, val \div 100), addr + 1, (val \div 10) % 10),
                      addr + 2, val % 10)]

RECURSIVE ldix_from(_, _, _)
ldix_from(c, x, k) ==
    IF k > x THEN c
    ELSE IF c.i + k >= MemSize THEN Panic(c)
    ELSE ldix_from([c EXCEPT !.memory = Poke(@, c.i + k, c.v[k])], x, k + 1)

\* ldix that leaves I after the last byte stored
ldix_moves_i(c, x) ==
    LET c1 == ldix_from(c, x, 0)
    IN  IF c1.panicked THEN c1 ELSE [c1 EXCEPT !.i = c.i + x + 1]

ldix(c, x) == ldix_from(c, x, 0)

RECURSIVE ldxi_from(_, _, _)
ldxi_from(c, x, k) ==
    IF k > x THEN c
    ELSE IF c.i + k >= MemSize THEN Panic(c)
    ELSE ldxi_from([c EXCEPT !.v[k] = Peek(c.memory, c.i + k)], x, k + 1)

ldxi(c, x) == ldxi_from(c, x, 0)

---------------------------------------------------------------------------
(* Cpu::process_opcode: the first matching arm of the match on (a, x, y, n) *)

process_opcode(c, opcode, byte) ==
    LET op == from_op(opcode)
        a == op.a
        x == op.x
        y == op.y
        n == op.n
    IN  CASE a = 0 /\ x = 0 /\ y = 14 /\ n = 0 -> cls(c)
          [] a = 0 /\ x = 0 /\ y = 14 /\ n = 14 -> ret(c)
          [] a = 0 /\ ~(x = 0 /\ y = 14 /\ n \in {0, 14}) -> sys(c, op.nnn)
          [] a = 1 -> jp(c, op.nnn)
          [] a = 2 -> call(c, op.nnn)
          [] a = 3 -> sec(c, x, op.kk)
          [] a = 4 -> snec(c, x, op.kk)
          [] a = 5 /\ n = 0 -> se(c, x, y)
          [] a = 6 -> ldc(c, x, op.kk)
          [] a = 7 -> addc(c, x, op.kk)
          [] a = 8 /\ n = 0 -> ld(c, x, y)
          [] a = 8 /\ n = 1 -> or(c, x, y)
          [] a = 8 /\ n = 2 -> and(c, x, y)
          [] a = 8 /\ n = 3 -> xor(c, x, y)
          [] a = 8 /\ n = 4 -> add(c, x, y)
          [] a = 8 /\ n = 5 -> sub(c, x, y)
          [] a = 8 /\ n = 6 -> shr(c, x)
          [] a = 8 /\ n = 7 -> subn(c, x, y)
          [] a = 8 /\ n = 14 -> shl(c, x)
          [] a = 9 /\ n = 0 -> sne(c, x, y)
          [] a = 10 -> ldi(c, op.nnn)
          [] a = 11 -> jp0(c, op.nnn)
          [] a = 12 -> rnd(c, x, op.kk, byte)
          [] a = 13 -> drw(c, x, y, n)
          [] a = 14 /\ y = 9 /\ n = 14 -> skp(c, x)
          [] a = 14 /\ y = 10 /\ n = 1 -> sknp(c, x)
          [] a = 15 /\ y = 0 /\ n = 7 -> ldxdt(c, x)
          [] a = 15 /\ y = 0 /\ n = 10 -> ldxk(c, x)
          [] a = 15 /\ y = 1 /\ n = 5 -> lddtx(c, x)
          [] a = 15 /\ y = 1 /\ n = 8 -> ldstx(c, x)
          [] a = 15 /\ y = 1 /\ n = 14 -> addi(c, x)
          [] a = 15 /\ y = 2 /\ n = 9 -> ldf(c, x)
          [] a = 15 /\ y = 3 /\ n = 3 -> ldb(c, x)
          [] a = 15 /\ y = 5 /\ n = 5 -> ldix(c, x)
          [] a = 15 /\ y = 6 /\ n = 5 -> ldxi(c, x)
          [] OTHER -> Panic(c)

---------------------------------------------------------------------------
(* Cpu::tick, Cpu::set_key_pressed, Cpu::set_key_released *)

\* The big-endian word at address a
FetchWord(mem, a) == Peek(mem, a) * 256 + Peek(mem, a + 1)

\* What tick hands to process_opcode: the word at pc, or NoWord when the
\* machine is waiting for a key or the read at pc or pc + 1 panics
NoWord == 0 - 1

\* tick_fetch whose addresses wrap around to low memory
tick_fetch_wraps(c) ==
    IF c.waiting = None
    THEN Peek(c.memory, c.pc % MemSize) * 256 + Peek(c.memory, (c.pc + 1) % MemSize)
    ELSE NoWord

tick_fetch(c) ==
    IF c.waiting = None /\ c.pc + 1 < MemSize THEN FetchWord(c.memory, c.pc)
    ELSE NoWord

\* tick_exec with the program counter advanced outside the test of the latch
tick_exec_advances(c, byte) ==
    LET c0 == [c EXCEPT !.pc = c.pc + 2]
    IN  IF c.waiting = None
        THEN IF tick_fetch(c) = NoWord THEN Panic(c0)
             ELSE process_opcode([c0 EXCEPT !.has_disp_update = FALSE], tick_fetch(c), byte)
        ELSE c0

\* tick_exec that leaves has_disp_update as the tick before left it
tick_exec_keeps_flag(c, byte) ==
    IF c.waiting = None
    THEN LET c0 == [c EXCEPT !.pc = c.pc + 2]
         IN  IF tick_fetch(c) = NoWord THEN Panic(c0)
             ELSE process_opcode(c0, tick_fetch(c), byte)
    ELSE c

\* The first half of tick: the block under `if self.waiting == None`
tick_exec(c, byte) ==
    IF c.waiting = None
    THEN LET c0 == [c EXCEPT !.has_disp_update = FALSE, !.pc = c.pc + 2]
         IN  IF tick_fetch(c) = NoWord THEN Panic(c0)
             ELSE process_opcode(c0, tick_fetch(c), byte)
    ELSE c

\* tick_timers with the gate tested on the count the tick ends with
tick_timers_after(c) ==
    LET c1 == [c EXCEPT !.cycle_count = @ + 1]
    IN  IF c1.cycle_count % TimerPeriod = 0
        THEN [c1 EXCEPT !.delay_timer = IF @ > 0 THEN @ - 1 ELSE @,
                        !.sound_timer = IF @ > 0 THEN @ - 1 ELSE @]
        ELSE c1

\* The second half of tick: the timers and the cycle counter
tick_timers(c) ==
    LET c1 == IF c.cycle_count % TimerPeriod = 0
              THEN [c EXCEPT !.delay_timer = IF @ > 0 THEN @ - 1 ELSE @,
                             !.sound_timer = IF @ > 0 THEN @ - 1 ELSE @]
              ELSE c
    IN  [c1 EXCEPT !.cycle_count = @ + 1]

\* tick with the timers kept before the instruction executes
tick_timers_first(c, byte) ==
    LET c1 == tick_exec([tick_timers(c) EXCEPT !.cycle_count = c.cycle_count], byte)
    IN  IF c1.panicked THEN c1 ELSE [c1 EXCEPT !.cycle_count = @ + 1]

tick(c, byte) ==
    LET c1 == tick_exec(c, byte)
    IN  IF c1.panicked THEN c1 ELSE tick_timers(c1)

\* set_key_pressed that delivers the key to V0 whatever the latch holds
set_key_pressed_v0(c, key) ==
    LET c1 == [c EXCEPT !.key_state[key] = TRUE]
    IN  IF c1.waiting # None
        THEN [c1 EXCEPT !.v[0] = key, !.waiting = None]
        ELSE c1

\* set_key_pressed that ends the wait only when the key was up
set_key_pressed_fresh(c, key) ==
    LET c1 == [c EXCEPT !.key_state[key] = TRUE]
    IN  IF c1.waiting # None /\ ~c.key_state[key]
        THEN [c1 EXCEPT !.v[c1.waiting[1]] = key, !.waiting = None]
        ELSE c1

set_key_pressed(c, key) ==
    LET c1 == [c EXCEPT !.key_state[key] = TRUE]
    IN  IF c1.waiting # None
        THEN [c1 EXCEPT !.v[c1.waiting[1]] = key, !.waiting = None]
        ELSE c1

\* set_key_released that also ends the wait
set_key_released_unlatches(c, key) == [c EXCEPT !.key_state[key] = FALSE, !.waiting = None]

set_key_released(c, key) == [c EXCEPT !.key_state[key] = FALSE]

---------------------------------------------------------------------------
(* Cpu::initialize followed by Cpu::load_rom, as MainState::new does *)

initialize ==
    [v |-> [r \in 0..(NumRegs - 1) |-> 0],
     i |-> 0,
     delay_timer |-> 0,
     sound_timer |-> 0,
     pc |-> 512,
     sp |-> 0,
     stack |-> [r \in 0..(StackSize - 1) |-> 0],
     memory |-> [a \in {k \in 0..(Len(sprites) - 1) : sprites[k + 1] # 0} |-> sprites[a + 1]],
     display |-> {},
     key_state |-> [k \in 0..(NumKeys - 1) |-> FALSE],
     waiting |-> None,
     has_disp_update |-> FALSE,
     cycle_count |-> 0,
     panicked |-> FALSE]

\* rom is the file's bytes: one read into memory[512..] takes what fits
load_rom(c, rom) ==
    LET read == {a \in RomBase..(MemSize - 1) : a < RomBase + Len(rom)}
        set == {a \in read : rom[a - RomBase + 1] # 0}
    IN  [c EXCEPT !.memory = [a \in (DOMAIN @ \ read) \cup set |->
                                 IF a \in read THEN rom[a - RomBase + 1] ELSE @[a]]]

\* The bytes of a sequence of instruction words, big-endian
RomBytes(words) ==
    [k \in 1..(2 * Len(words)) |->
        IF k % 2 = 1 THEN words[(k + 1) \div 2] \div 256 ELSE words[k \div 2] % 256]

\* The last arm of process_opcode: no arm of the table matches opcode.  On
\* a fresh Cpu with one return address on the stack no instruction fails,
\* so there process_opcode panics in its last arm only.
Unidentified(opcode) == process_opcode([initialize EXCEPT !.sp = 1], opcode, 0).panicked

---------------------------------------------------------------------------
(* The state as a Cpu record, and back *)

Cpu ==
    [v |-> v, i |-> i, delay_timer |-> delay_timer, sound_timer |-> sound_timer,
     pc |-> pc, sp |-> sp, stack |-> stack, memory |-> memory, display |-> display,
     key_state |-> key_state, waiting |-> waiting,
     has_disp_update |-> has_disp_update, cycle_count |-> cycle_count,
     panicked |-> panicked]

Becomes(c) ==
    /\ v' = c.v
    /\ i' = c.i
    /\ delay_timer' = c.delay_timer
    /\ sound_timer' = c.sound_timer
    /\ pc' = c.pc
    /\ sp' = c.sp
    /\ stack' = c.stack
    /\ memory' = c.memory
    /\ display' = c.display
    /\ key_state' = c.key_state
    /\ waiting' = c.waiting
    /\ has_disp_update' = c.has_disp_update
    /\ cycle_count' = c.cycle_count
    /\ panicked' = c.panicked

Starts(c) ==
    /\ v = c.v
    /\ i = c.i
    /\ delay_timer = c.delay_timer
    /\ sound_timer = c.sound_timer
    /\ pc = c.pc
    /\ sp = c.sp
    /\ stack = c.stack
    /\ memory = c.memory
    /\ display = c.display
    /\ key_state = c.key_state
    /\ waiting = c.waiting
    /\ has_disp_update = c.has_disp_update
    /\ cycle_count = c.cycle_count
    /\ panicked = c.panicked

---------------------------------------------------------------------------
(* The host: the keys it reports, the bytes the random source returns, and *)
(* the ROMs it loads.                                                      *)

Keys == {0, 7}
RandomBytes == {0, 255}

\* The bytes a tick may draw: rng.gen::<u8>() is called by rnd alone
Drawn(w) == IF w >= 0 /\ from_op(w).a = 12 THEN RandomBytes ELSE {0}

\* The ROMs of len instruction words drawn from words
Roms(words, len) == [1..len -> words]

NoKey == 0 - 1

\* LD V1,K; LD DT,V1; LD ST,V1; LD V0,DT
RomWords == {61706, 61717, 61720, 61447}

InitWith(words, len) ==
    /\ \E rom \in Roms(words, len) : Starts(load_rom(initialize, RomBytes(rom)))
    /\ last = [op |-> "initialize", key |-> NoKey, word |-> NoWord]

Init == InitWith(RomWords, ProgLen)

\* MainState::update
Tick ==
    /\ ~panicked
    /\ cycle_count < MaxTicks
    /\ \E byte \in Drawn(tick_fetch(Cpu)) : Becomes(tick(Cpu, byte))
    /\ last' = [op |-> "tick", key |-> NoKey, word |-> tick_fetch(Cpu)]

\* MainState::key_down_event
SetKeyPressed ==
    /\ ~panicked
    /\ \E key \in Keys :
        /\ Becomes(set_key_pressed(Cpu, key))
        /\ last' = [op |-> "set_key_pressed", key |-> key, word |-> NoWord]

\* MainState::key_up_event
SetKeyReleased ==
    /\ ~panicked
    /\ \E key \in Keys :
        /\ Becomes(set_key_released(Cpu, key))
        /\ last' = [op |-> "set_key_released", key |-> key, word |-> NoWord]

Next == Tick \/ SetKeyPressed \/ SetKeyReleased

Spec == Init /\ [][Next]_vars

\* CLS; DRW V0,V0,5; LD V0,K; JP 0x200
DispWords == {224, 53253, 61450, 4608}

InitDisp == InitWith(DispWords, ProgLen)

SpecDisp == InitDisp /\ [][Next]_vars

\* SKP V0; CALL 0x200; CALL 0x202; CALL 0x204; RET
CallWords == {57502, 8704, 8706, 8708, 238}

InitCall == InitWith(CallWords, ProgLen)

SpecCall == InitCall /\ [][Next]_vars

\* LD V0,0x3E; LD VF,9; DRW V0,V0,5; DRW VF,V0,3; DRW V0,VF,3; DRW V0,V0,0
DrwWords == {24638, 28425, 53253, 57091, 53491, 53248}

InitDrw == InitWith(DrwWords, ProgLen)

SpecDrw == InitDrw /\ [][Next]_vars

\* A register file: V0, V1 and VF as given, V2..VE zero
Regs(a, b, f) ==
    [r \in 0..(NumRegs - 1) |->
        IF r = 0 THEN a ELSE IF r = 1 THEN b ELSE IF r = 15 THEN f ELSE 0]

\* The ROMs of one instruction word drawn from words
OneWord(words) == {<<w>> : w \in words}

\* As the unit tests of cpu.rs do, the registers are set on a fresh Cpu
\* before the instructions run: a ROM of roms, V of files, I of addrs.
InitRegs(roms, files, addrs) ==
    /\ \E rom \in roms, file \in files, addr \in addrs :
           Starts(load_rom([initialize EXCEPT !.v = file, !.i = addr], RomBytes(rom)))
    /\ last = [op |-> "initialize", key |-> NoKey, word |-> NoWord]

\* ADD V0,V1; ADD V0,VF; ADD VF,V0; SUB V0,V1; SUB VF,V0; SUBN V0,V1;
\* SUBN VF,V0; SHR V1; SHR VF
AluWords == {32788, 33012, 36612, 32789, 36613, 32791, 36615, 33046, 36614}

AluVals == {0, 1, 3, 255}

InitAlu ==
    InitRegs(OneWord(AluWords), {Regs(a, b, f) : a \in AluVals, b \in AluVals, f \in AluVals}, {0})

SpecAlu == InitAlu /\ [][Next]_vars

\* LD B,V0; LD B,VF
BcdWords == {61491, 65331}

BcdVals == {0, 9, 99, 105, 190, 255}

\* The font, the ROM itself, free memory, and the last three addresses
BcdAddrs == {0, 512, 768, 4093, 4094, 4095}

InitBcd == InitRegs(OneWord(BcdWords), {Regs(a, 0, a) : a \in BcdVals}, BcdAddrs)

SpecBcd == InitBcd /\ [][Next]_vars

\* LD [I],V1; LD [I],VF; LD V0,9; LD V1,[I]; LD VF,[I]
MemWords == {61781, 65365, 24585, 61797, 65381}

\* V0..VF all different: 1, 17, 33, ..., 241
MemFiles == {[r \in 0..(NumRegs - 1) |-> 16 * r + 1]}

\* Free memory, and the last address sixteen bytes fit at
MemAddrs == {768, 4080}

InitMem == InitRegs(Roms(MemWords, ProgLen), MemFiles, MemAddrs)

SpecMem == InitMem /\ [][Next]_vars

\* ADD I,V0; ADD I,VF
AddiWords == {61470, 65310}

AddiVals == {0, 1, 255}

\* I up to the sums that pass 0x0FFF and 0xFFFF
AddiAddrs == {0, 3841, 4095, 65281, 65534, 65535}

InitAddi ==
    InitRegs(OneWord(AddiWords), {Regs(a, 0, f) : a \in AddiVals, f \in AddiVals}, AddiAddrs)

SpecAddi == InitAddi /\ [][Next]_vars

\* JP V0,0x200; JP V0,0x2FF; JP V0,0xF01; JP V0,0xFFF
Jp0Words == {45568, 45823, 48897, 49151}

Jp0Vals == {0, 1, 255}

InitJp0 == InitRegs(OneWord(Jp0Words), {Regs(a, 0, 0) : a \in Jp0Vals}, {0})

SpecJp0 == InitJp0 /\ [][Next]_vars

\* SKP V0; SKNP V0
KeyWords == {57502, 57505}

\* The keys the host reports, the last key, and values past the keypad
KeyVals == {0, 7, 15, 16, 23, 255}

InitKey == InitRegs(OneWord(KeyWords), {Regs(a, 0, 0) : a \in KeyVals}, {0})

SpecKey == InitKey /\ [][Next]_vars

\* The low bytes the table of process_opcode tells apart: y = 0 with every
\* n, the low bytes of the arms of groups 0, E and F, and low bytes next to
\* them (0x75, 0x9F, 0xA0, 0xFF)
DecodeLowBytes ==
    (0..15) \cup {21, 24, 30, 41, 51, 85, 101, 158, 161, 224, 238} \cup {117, 159, 160, 255}

\* Every class a with x = 0 and x = 1 and those low bytes
DecodeWords ==
    {a * 4096 + x * 256 + kk : a \in 0..15, x \in {0, 1}, kk \in DecodeLowBytes}

\* One word, and two programs that make CLS and RET visible:
\* DRW V0,V0,5; CLS and CALL 0x202; RET
DecodeRoms == OneWord(DecodeWords) \cup {<<53253, 224>>, <<8706, 238>>}

InitDecode == InitRegs(DecodeRoms, {Regs(0, 0, 0)}, {0})

SpecDecode == InitDecode /\ [][Next]_vars

\* A ROM file of len bytes, all zero but the first (0x12: JP 0x200 with the
\* zero after it), the 3584th, which is the last that fits memory[512..]
\* (0xCD), and the last (0xAB)
RomFile(len) ==
    [k \in 1..len |->
        IF k = len THEN 171
        ELSE IF k = 1 THEN 18
        ELSE IF k = MemSize - RomBase THEN 205
        ELSE 0]

\* File lengths up to and past the 3584 bytes of memory[512..]
LoadLens == {0, 1, 2, 3583, 3584, 3585, 3586}

\* Cpu::initialize, before MainState::new calls load_rom
InitFresh ==
    /\ Starts(initialize)
    /\ last = [op |-> "initialize", key |-> NoKey, word |-> NoWord]

\* The call of load_rom in MainState::new, on a file of len bytes
LoadRom ==
    /\ last.op = "initialize"
    /\ \E len \in LoadLens :
           /\ Becomes(load_rom(Cpu, RomFile(len)))
           /\ last' = [op |-> "load_rom", key |-> NoKey, word |-> NoWord, len |-> len]

\* MainState::new, then the events of the host
NextLoad == LoadRom \/ (last.op # "initialize" /\ Next)

SpecLoad == InitFresh /\ [][NextLoad]_vars

\* A ROM that fills memory[512..]: the word first at 0x200, the word
\* closing at 0xFFE, zero in between
EdgeRom(first, closing) ==
    [k \in 1..((MemSize - RomBase) \div 2) |->
        IF k = 1 THEN first
        ELSE IF k = (MemSize - RomBase) \div 2 THEN closing
        ELSE 0]

\* LD B,V0; LD [I],V1; LD V1,[I]; DRW V0,V0,2; DRW V0,V0,0; JP 0xFFE;
\* JP 0xFFF; JP V0,0xFFE
EdgeWords == {61491, 61781, 61797, 53250, 53248, 8190, 8191, 49150}

\* At 0xFFE: SYS 0, and SE V0,0, which skips to 0x1002 when V0 is 0
EdgeClosing == {0, 12288}

\* I at the last addresses of memory and one past them
EdgeAddrs == {4093, 4094, 4095, 4096}

InitEdge ==
    InitRegs({EdgeRom(w, t) : w \in EdgeWords, t \in EdgeClosing},
             {Regs(a, 0, 0) : a \in {0, 1}}, EdgeAddrs)

SpecEdge == InitEdge /\ [][Next]_vars

\* ADD, SUB, SUBN and SHL on V0,V1 and on VF,V0; SHR VF; DRW V0,V1,1;
\* DRW VF,VF,1; ADD I,V0; ADD I,VF
FlagWords ==
    {32788, 36612, 32789, 36613, 36614, 32791, 36615, 32798, 36622,
     53265, 57329, 61470, 65310}

FlagVals == {0, 1, 128, 255}

\* One word, and DRW V0,V1,1 followed by a second sprite
FlagRoms == OneWord(FlagWords) \cup {<<53265, 53265>>, <<53265, 57329>>}

InitFlag ==
    InitRegs(FlagRoms, {Regs(a, b, f) : a \in FlagVals, b \in FlagVals, f \in FlagVals}, {0})

SpecFlag == InitFlag /\ [][Next]_vars

---------------------------------------------------------------------------
(* The arms of process_opcode the claims speak of, as predicates on the    *)
(* word a tick fetched.                                                    *)

IsCls(w) == w = 224
IsRet(w) == w = 238
IsCall(w) == w >= 0 /\ from_op(w).a = 2
IsDrw(w) == w >= 0 /\ from_op(w).a = 13
IsLdxdt(w) == w >= 0 /\ from_op(w).a = 15 /\ from_op(w).kk = 7
IsLdxk(w) == w >= 0 /\ from_op(w).a = 15 /\ from_op(w).kk = 10
IsLddtx(w) == w >= 0 /\ from_op(w).a = 15 /\ from_op(w).kk = 21
IsLdstx(w) == w >= 0 /\ from_op(w).a = 15 /\ from_op(w).kk = 24
IsAdd(w) == w >= 0 /\ from_op(w).a = 8 /\ from_op(w).n = 4
IsSub(w) == w >= 0 /\ from_op(w).a = 8 /\ from_op(w).n = 5
IsShr(w) == w >= 0 /\ from_op(w).a = 8 /\ from_op(w).n = 6
IsSubn(w) == w >= 0 /\ from_op(w).a = 8 /\ from_op(w).n = 7
IsShl(w) == w >= 0 /\ from_op(w).a = 8 /\ from_op(w).n = 14
IsJp0(w) == w >= 0 /\ from_op(w).a = 11
IsSkp(w) == w >= 0 /\ from_op(w).a = 14 /\ from_op(w).kk = 158
IsSknp(w) == w >= 0 /\ from_op(w).a = 14 /\ from_op(w).kk = 161
IsAddi(w) == w >= 0 /\ from_op(w).a = 15 /\ from_op(w).kk = 30
IsLdb(w) == w >= 0 /\ from_op(w).a = 15 /\ from_op(w).kk = 51
IsLdix(w) == w >= 0 /\ from_op(w).a = 15 /\ from_op(w).kk = 85
IsLdxi(w) == w >= 0 /\ from_op(w).a = 15 /\ from_op(w).kk = 101

\* A timer one gate later: down by one, and 0 stays 0
Decremented(t) == IF t > 0 THEN t - 1 ELSE 0

---------------------------------------------------------------------------
(* C1: a tick made while the wait latch is set fetches nothing and leaves  *)
(* PC, V0..VF, I, SP, the stack, memory, the display, the keypad, the      *)
(* dirty flag and the latch unchanged; it advances cycle_count by one and  *)
(* the timers still go down on the ticks the gate hits.                    *)
C1_WaitingTickFrame ==
    [][(waiting # None /\ last'.op = "tick") =>
          /\ last'.word = NoWord
          /\ UNCHANGED <<pc, v, i, sp, stack, memory, display, key_state,
                         has_disp_update, waiting, panicked>>
          /\ cycle_count' = cycle_count + 1
          /\ IF cycle_count % TimerPeriod = 0
             THEN /\ delay_timer' = Decremented(delay_timer)
                  /\ sound_timer' = Decremented(sound_timer)
             ELSE UNCHANGED <<delay_timer, sound_timer>>]_vars

\* The ninth tick was made waiting for a key, and took the delay timer from 7 to 6.
C1_Witness ==
    /\ waiting = Some(1)
    /\ last.op = "tick" /\ last.word = NoWord
    /\ cycle_count = 9 /\ v[1] = 7 /\ delay_timer = 6

(* C2: the latch goes from empty to set only on a tick that executes an    *)
(* Fx0A, and then holds that x; it goes from set to empty only on a        *)
(* set_key_pressed; set_key_released and the ticks that execute anything   *)
(* else leave it as it is.                                                 *)
C2_LatchTransitions ==
    [][/\ (waiting = None /\ waiting' # None) =>
              /\ last'.op = "tick"
              /\ IsLdxk(last'.word)
              /\ waiting' = Some(from_op(last'.word).x)
       /\ (waiting # None /\ waiting' # waiting) =>
              /\ last'.op = "set_key_pressed"
              /\ waiting' = None
       /\ (last'.op = "tick" /\ IsLdxk(last'.word) /\ ~panicked') =>
              waiting' = Some(from_op(last'.word).x)
       /\ (last'.op = "tick" /\ ~IsLdxk(last'.word)) => waiting' = waiting
       /\ last'.op = "set_key_released" => waiting' = waiting]_vars

\* A key was released while the machine waited on V1, and it still waits.
C2_Witness ==
    /\ last.op = "set_key_released"
    /\ waiting = Some(1)
    /\ cycle_count > 1

(* C3: set_key_pressed(k) with the latch holding x writes k to V[x] and to *)
(* no other register, clears the latch and leaves PC at the address after  *)
(* the Fx0A, where the next tick fetches; with the latch empty it changes  *)
(* keypad[k] only.                                                         *)
C3_KeyPressDelivers ==
    [][last'.op = "set_key_pressed" =>
          /\ key_state' = [key_state EXCEPT ![last'.key] = TRUE]
          /\ UNCHANGED <<i, delay_timer, sound_timer, pc, sp, stack, memory, display,
                         has_disp_update, cycle_count, panicked>>
          /\ waiting' = None
          /\ IF waiting # None
             THEN /\ v' = [v EXCEPT ![waiting[1]] = last'.key]
                  /\ pc >= 2
                  /\ IsLdxk(FetchWord(memory, pc - 2))
                  /\ from_op(FetchWord(memory, pc - 2)).x = waiting[1]
                  /\ tick_fetch(Cpu)' = FetchWord(memory, pc)
             ELSE v' = v]_vars

\* Key 7 ended the wait on V1, and a later key-down of key 0 left V1 alone.
C3_Witness ==
    /\ last.op = "set_key_pressed" /\ last.key = 0
    /\ waiting = None
    /\ v[1] = 7
    /\ IsLdxk(FetchWord(memory, pc - 2))

(* C4, as claimed: a key that is down when Fx0A executes does not end the  *)
(* wait, and the latch is cleared only by a set_key_pressed(k) that takes  *)
(* keypad[k] from false to true; a set_key_pressed(k) for a key that is    *)
(* already down leaves the machine waiting.                                *)
C4_OnlyFreshKeyDownEndsWait ==
    [][/\ (last'.op = "tick" /\ IsLdxk(last'.word)) => waiting' # None
       /\ (waiting # None /\ waiting' = None) =>
              /\ last'.op = "set_key_pressed"
              /\ ~key_state[last'.key]
              /\ key_state'[last'.key]
       /\ (last'.op = "set_key_pressed" /\ key_state[last'.key]) =>
              waiting' = waiting]_vars

(* C4, amended: a key that is down when Fx0A executes does not end the     *)
(* wait, and the latch is cleared only by a set_key_pressed call; every    *)
(* set_key_pressed(k) call clears it, also one for a key whose keypad      *)
(* entry is already true.                                                  *)
C4_AnyKeyDownEndsWait ==
    [][/\ (last'.op = "tick" /\ IsLdxk(last'.word)) => waiting' # None
       /\ (waiting # None /\ waiting' = None) => last'.op = "set_key_pressed"
       /\ (last'.op = "set_key_pressed" /\ key_state[last'.key]) =>
              /\ waiting' = None
              /\ waiting # None => v'[waiting[1]] = last'.key]_vars

\* Fx0A executed with key 7 held down, and the machine waits.
C4_Witness ==
    /\ last.op = "tick" /\ IsLdxk(last.word)
    /\ key_state[7]
    /\ waiting = Some(1)

(* C5, as claimed: the timers go down on exactly the ticks at whose end    *)
(* cycle_count mod 8 = 0 (the 8th, 16th, ... tick), a non-zero timer by    *)
(* one and a zero timer not at all.  A tick that executes Fx15 or Fx18     *)
(* starts from the value it wrote.                                         *)
C5_TimersOnEighthTick ==
    [][(last'.op = "tick" /\ ~panicked') =>
          LET gate == cycle_count' % TimerPeriod = 0
              x == from_op(last'.word).x
              dt == IF IsLddtx(last'.word) THEN v[x] ELSE delay_timer
              st == IF IsLdstx(last'.word) THEN v[x] ELSE sound_timer
          IN  /\ cycle_count' = cycle_count + 1
              /\ delay_timer' = IF gate THEN Decremented(dt) ELSE dt
              /\ sound_timer' = IF gate THEN Decremented(st) ELSE st]_vars

(* C5, amended: the timers go down on exactly the ticks at whose start     *)
(* cycle_count mod 8 = 0 (the 1st, 9th, 17th, ... tick), a non-zero timer  *)
(* by one and a zero timer not at all.                                     *)
C5_TimersOnFirstOfEightTicks ==
    [][(last'.op = "tick" /\ ~panicked') =>
          LET gate == cycle_count % TimerPeriod = 0
              x == from_op(last'.word).x
              dt == IF IsLddtx(last'.word) THEN v[x] ELSE delay_timer
              st == IF IsLdstx(last'.word) THEN v[x] ELSE sound_timer
          IN  /\ cycle_count' = cycle_count + 1
              /\ delay_timer' = IF gate THEN Decremented(dt) ELSE dt
              /\ sound_timer' = IF gate THEN Decremented(st) ELSE st]_vars

\* The sound timer, set to 7 before the ninth tick, is 5 after the seventeenth.
C5_Witness ==
    /\ last.op = "tick"
    /\ cycle_count = 17
    /\ v[1] = 7 /\ sound_timer = 5

(* C6: the instruction executes before the timers are kept: on a tick the  *)
(* gate hits, Fx15 (Fx18) leaves the delay (sound) timer at V[x] - 1 when  *)
(* V[x] > 0, and Fx07 gives V[x] the delay timer from before the tick's    *)
(* decrement.                                                              *)
C6_ExecuteBeforeTimers ==
    [][(last'.op = "tick" /\ cycle_count % TimerPeriod = 0 /\ ~panicked') =>
          LET x == from_op(last'.word).x
          IN  /\ IsLddtx(last'.word) =>
                     delay_timer' = IF v[x] > 0 THEN v[x] - 1 ELSE 0
              /\ IsLdstx(last'.word) =>
                     sound_timer' = IF v[x] > 0 THEN v[x] - 1 ELSE 0
              /\ IsLdxdt(last'.word) =>
                     /\ v'[x] = delay_timer
                     /\ delay_timer' = Decremented(delay_timer)]_vars

\* Fx07 on the ninth tick read a delay timer of 7, which the tick then took to 6.
C6_Witness ==
    /\ last.op = "tick" /\ IsLdxdt(last.word)
    /\ cycle_count = 9
    /\ v[0] = 7 /\ delay_timer = 6

(* C7: after every tick has_disp_update is true exactly when that tick    *)
(* executed CLS or DRW, and it is false in every state in which the        *)
(* machine waits for a key.                                                *)
C7_DirtyIffDrew ==
    /\ (last.op = "tick" /\ ~panicked) =>
           (has_disp_update <=> (IsCls(last.word) \/ IsDrw(last.word)))
    /\ waiting # None => ~has_disp_update

\* A tick that did not draw followed one that did, and the flag is down
\* over a display that still shows the sprite.
C7_Witness ==
    /\ last.op = "tick" /\ ~IsCls(last.word) /\ ~IsDrw(last.word)
    /\ ~has_disp_update
    /\ display # {}

(* C8: from a state with SP < 15, CALL nnn and then RET leave PC at the    *)
(* address after the CALL and SP as it was; CALL pushes above the return   *)
(* addresses already there and RET takes the one pushed last, so nested    *)
(* CALLs return last in, first out.                                        *)
C8_CallThenRet ==
    [][/\ \A byte \in RandomBytes :
              LET w == tick_fetch(Cpu)
                  nnn == from_op(w).nnn
                  c1 == tick(Cpu, byte)
                  c2 == tick(c1, byte)
              IN  (/\ ~panicked /\ IsCall(w) /\ sp < 15
                   /\ nnn + 1 < MemSize /\ IsRet(FetchWord(memory, nnn))) =>
                      /\ ~c2.panicked
                      /\ c1.pc = nnn /\ c1.sp = sp + 1
                      /\ c2.pc = pc + 2 /\ c2.sp = sp
       /\ (last'.op = "tick" /\ IsCall(last'.word) /\ ~panicked') =>
              /\ sp' = sp + 1
              /\ stack' = [stack EXCEPT ![sp + 1] = pc + 2]
       /\ (last'.op = "tick" /\ IsRet(last'.word) /\ ~panicked') =>
              /\ pc' = stack[sp]
              /\ sp' = sp - 1
              /\ stack' = stack]_vars

\* A RET inside a subroutine came back to the address after the inner CALL,
\* with the outer return address, a different one, still on the stack.
C8_Witness ==
    /\ last.op = "tick" /\ IsRet(last.word) /\ ~panicked
    /\ sp >= 1
    /\ IsCall(FetchWord(memory, pc - 2))
    /\ stack[sp] # pc

(* C9: RET with SP = 0 is fatal and CALL with SP = 15 is fatal; in every   *)
(* state that is not fatal 0 <= SP <= 15; CALL writes and RET reads no     *)
(* stack slot outside 1..15.                                               *)
C9_StackBounds ==
    [][/\ (last'.op = "tick" /\ IsRet(last'.word)) =>
              IF sp = 0 THEN panicked'
              ELSE ~panicked' /\ sp \in 1..15 /\ pc' = stack[sp]
       /\ (last'.op = "tick" /\ IsCall(last'.word)) =>
              IF sp = 15 THEN panicked'
              ELSE /\ ~panicked'
                   /\ sp + 1 \in 1..15
                   /\ \A k \in 0..(StackSize - 1) : k # sp + 1 => stack'[k] = stack[k]
       /\ ~panicked' => sp' \in 0..15
       /\ stack'[0] = stack[0]]_vars

\* The sixteenth nested CALL found SP = 15 and was fatal.
C9_Witness ==
    /\ panicked
    /\ last.op = "tick" /\ IsCall(last.word)
    /\ cycle_count = 15

---------------------------------------------------------------------------
(* The sprite of a DRW Vx,Vy,n as C10 places it: the <<row, column>> that   *)
(* the set bits of memory[I .. I+n-1] map onto from (vx, vy).               *)
SpritePixels(mem, addr, n, vx, vy) ==
    {<<(vy + r) % C8_HEIGHT, (vx + k) % C8_WIDTH>> :
        <<r, k>> \in {q \in (0..(n - 1)) \X (0..7) :
                         (Peek(mem, addr + q[1]) \div (2 ^ (7 - q[2]))) % 2 = 1}}

(* C10: DRW Vx,Vy,n, for every x and y, F included, leaves each pixel at   *)
(* its old value XOR the sprite bit that maps onto it from the V[x], V[y]  *)
(* held when the instruction started, and leaves VF at 1 exactly when a    *)
(* pixel that was on met a sprite bit that is on.                          *)
C10_DrwBlitsAtStartCoordinates ==
    [][(last'.op = "tick" /\ IsDrw(last'.word) /\ ~panicked') =>
          LET op == from_op(last'.word)
              lit == SpritePixels(memory, i, op.n, v[op.x], v[op.y])
          IN  /\ display' = (display \ lit) \cup (lit \ display)
              /\ v'[15] = IF lit \cap display # {} THEN 1 ELSE 0]_vars

(* C10 for the x and y that are not F: there the blit is as C10 says.      *)
C10_DrwBlitsUnlessVF ==
    [][(last'.op = "tick" /\ IsDrw(last'.word) /\ ~panicked'
        /\ from_op(last'.word).x # 15 /\ from_op(last'.word).y # 15) =>
          LET op == from_op(last'.word)
              lit == SpritePixels(memory, i, op.n, v[op.x], v[op.y])
          IN  /\ display' = (display \ lit) \cup (lit \ display)
              /\ v'[15] = IF lit \cap display # {} THEN 1 ELSE 0]_vars

(* C11: 8xy4 leaves VF = 1 if old V[x] + old V[y] > 255 and 0 otherwise,  *)
(* and V[x] = (old V[x] + old V[y]) mod 256 when x is not F; with x = F   *)
(* the register holds the carry.  No other register changes.              *)
C11_AddCarryWrittenLast ==
    [][(last'.op = "tick" /\ IsAdd(last'.word)) =>
          LET x == from_op(last'.word).x
              y == from_op(last'.word).y
              sum == v[x] + v[y]
          IN  /\ ~panicked'
              /\ v'[15] = (IF sum > 255 THEN 1 ELSE 0)
              /\ x # 15 => v'[x] = sum % 256
              /\ \A r \in 0..(NumRegs - 1) \ {x, 15} : v'[r] = v[r]]_vars

\* ADD VF,V0 has run first with V0 = 255 and a carry: whatever VF held (1, 3
\* or 255), the sum (0, 2 or 254) is not the 1 that VF holds now.
C11_Witness ==
    /\ last.op = "tick" /\ last.word = 36612
    /\ cycle_count = 1
    /\ v[0] = 255 /\ v[15] = 1

(* C12: 8xy5 leaves VF = 1 iff old V[x] >= old V[y] and 8xy7 leaves VF = 1 *)
(* iff old V[y] >= old V[x] (not borrow: equal operands give 1); V[x] is   *)
(* the difference mod 256 (x not F; with x = F the register is VF and      *)
(* holds the flag).  No other register changes.                            *)
C12_SubNotBorrow ==
    [][/\ (last'.op = "tick" /\ IsSub(last'.word)) =>
              LET x == from_op(last'.word).x
                  y == from_op(last'.word).y
              IN  /\ ~panicked'
                  /\ v'[15] = (IF v[x] >= v[y] THEN 1 ELSE 0)
                  /\ x # 15 => v'[x] = (v[x] - v[y] + 256) % 256
                  /\ \A r \in 0..(NumRegs - 1) \ {x, 15} : v'[r] = v[r]
       /\ (last'.op = "tick" /\ IsSubn(last'.word)) =>
              LET x == from_op(last'.word).x
                  y == from_op(last'.word).y
              IN  /\ ~panicked'
                  /\ v'[15] = (IF v[y] >= v[x] THEN 1 ELSE 0)
                  /\ x # 15 => v'[x] = (v[y] - v[x] + 256) % 256
                  /\ \A r \in 0..(NumRegs - 1) \ {x, 15} : v'[r] = v[r]]_vars

\* SUB V0,V1 has run first on equal, non-zero operands: the difference is 0
\* and VF is 1.
C12_Witness ==
    /\ last.op = "tick" /\ last.word = 32789
    /\ cycle_count = 1
    /\ v[0] = 0 /\ v[1] # 0 /\ v[15] = 1

(* C13: for every x in 0..15, x = F included, 8xy6 leaves V[x] = old V[x]  *)
(* >> 1 and VF = old V[x] & 1.                                             *)
C13_ShrAnyRegister ==
    [][(last'.op = "tick" /\ IsShr(last'.word)) =>
          LET x == from_op(last'.word).x
          IN  /\ v'[x] = v[x] \div 2
              /\ v'[15] = v[x] % 2]_vars

\* The same for x other than F
C13_ShrUnlessVF ==
    [][(last'.op = "tick" /\ IsShr(last'.word) /\ from_op(last'.word).x # 15) =>
          LET x == from_op(last'.word).x
          IN  /\ v'[x] = v[x] \div 2
              /\ v'[15] = v[x] % 2]_vars

(* C14: with I + 2 < 4096, Fx33 writes memory[I] = V[x] / 100,             *)
(* memory[I+1] = (V[x] / 10) mod 10 and memory[I+2] = V[x] mod 10, changes *)
(* no other byte of memory, and leaves I and V0..VF unchanged.             *)
C14_BcdDigits ==
    [][(last'.op = "tick" /\ IsLdb(last'.word) /\ i + 2 < MemSize) =>
          LET x == from_op(last'.word).x
          IN  /\ ~panicked'
              /\ Peek(memory', i) = v[x] \div 100
              /\ Peek(memory', i + 1) = (v[x] \div 10) % 10
              /\ Peek(memory', i + 2) = v[x] % 10
              /\ \A a \in 0..(MemSize - 1) \ {i, i + 1, i + 2} :
                     Peek(memory', a) = Peek(memory, a)
              /\ i' = i
              /\ v' = v]_vars

\* LD B,V0 has run first with V0 = 105 and I = 4093, the last address the
\* three bytes fit at: they are 1, 0, 5.
C14_Witness ==
    /\ last.op = "tick" /\ last.word = 61491
    /\ cycle_count = 1 /\ ~panicked
    /\ v[0] = 105 /\ i = 4093
    /\ Peek(memory, 4093) = 1 /\ Peek(memory, 4094) = 0 /\ Peek(memory, 4095) = 5

(* C15: with I + x < 4096, Fx55 stores V0..Vx at I.. and changes neither I *)
(* nor a register, and an Fx65 that follows with the same I, whatever the  *)
(* registers have become in between, restores V0..Vx to what was stored    *)
(* and leaves V(x+1)..VF and I as they are.                                *)
C15_StoreThenLoadRestores ==
    [][/\ (last'.op = "tick" /\ IsLdix(last'.word) /\ i + from_op(last'.word).x < MemSize) =>
              LET x == from_op(last'.word).x
              IN  /\ ~panicked'
                  /\ i' = i
                  /\ v' = v
                  /\ \A r \in 0..x : Peek(memory', i + r) = v[r]
                  /\ \A s \in {[r \in 0..(NumRegs - 1) |-> 0],
                                [r \in 0..(NumRegs - 1) |-> 255 - v[r]]} :
                         LET c2 == ldxi([Cpu EXCEPT !.memory = memory', !.v = s], x)
                         IN  /\ ~c2.panicked
                             /\ c2.i = i
                             /\ \A r \in 0..(NumRegs - 1) :
                                    c2.v[r] = IF r <= x THEN v[r] ELSE s[r]
       /\ (last'.op = "tick" /\ IsLdxi(last'.word) /\ i + from_op(last'.word).x < MemSize) =>
              LET x == from_op(last'.word).x
              IN  /\ ~panicked'
                  /\ i' = i
                  /\ memory' = memory
                  /\ \A r \in 0..(NumRegs - 1) :
                         v'[r] = IF r <= x THEN Peek(memory, i + r) ELSE v[r]]_vars

\* LD [I],VF; LD V0,9; LD VF,[I] have run with I = 4080 and V0..VF all
\* different: V0, which was 9 in between, is 1 again.
C15_Witness ==
    /\ last.op = "tick" /\ last.word = 65381
    /\ cycle_count = 3 /\ ~panicked
    /\ FetchWord(memory, 512) = 65365 /\ FetchWord(memory, 514) = 24585
    /\ i = 4080
    /\ v[0] = 1 /\ v[15] = 241

(* C16: Fx1E sets VF to 1 when the sum I + V[x] exceeds 0x0FFF and to 0    *)
(* otherwise.                                                              *)
C16_AddiFlagsPast0FFF ==
    [][(last'.op = "tick" /\ IsAddi(last'.word)) =>
          v'[15] = (IF i + v[from_op(last'.word).x] > 4095 THEN 1 ELSE 0)]_vars

(* C16, as the code has it: Fx1E sets VF to 1 when the sum I + V[x] does   *)
(* not fit the 16-bit register and to 0 otherwise, so a sum in             *)
(* 0x1000..0xFFFF leaves VF = 0.                                           *)
C16_AddiFlagsPastFFFF ==
    [][(last'.op = "tick" /\ IsAddi(last'.word)) =>
          LET sum == i + v[from_op(last'.word).x]
          IN  /\ v'[15] \in {0, 1}
              /\ v'[15] = 1 <=> sum > 65535
              /\ (sum > 4095 /\ sum <= 65535) => v'[15] = 0]_vars

\* ADD I,V0 has run first and taken I past 0x0FFF, to 0x1000: VF is 0.
C16_Witness ==
    /\ last.op = "tick" /\ last.word = 61470
    /\ cycle_count = 1
    /\ v[0] > 0 /\ i = 4096
    /\ v[15] = 0

(* C17: Fx1E sets I to (I + V[x]) mod 65536 and VF to the carry out of the *)
(* 16-bit addition: I = 65534 with V[x] = 1 gives I = 65535 and VF = 0,    *)
(* I = 65535 with V[x] = 1 gives I = 0 and VF = 1.  No register other than *)
(* VF changes.                                                             *)
C17_AddiCarry16 ==
    [][(last'.op = "tick" /\ IsAddi(last'.word)) =>
          LET x == from_op(last'.word).x
              sum == i + v[x]
          IN  /\ ~panicked'
              /\ i' = sum % 65536
              /\ v'[15] = (IF sum > 65535 THEN 1 ELSE 0)
              /\ \A r \in 0..(NumRegs - 1) \ {15} : v'[r] = v[r]
              /\ (i = 65534 /\ v[x] = 1) => (i' = 65535 /\ v'[15] = 0)
              /\ (i = 65535 /\ v[x] = 1) => (i' = 0 /\ v'[15] = 1)]_vars

\* ADD I,V0 has run first with V0 = 1 and left I = 0 and VF = 1: I was
\* 65535.
C17_Witness ==
    /\ last.op = "tick" /\ last.word = 61470
    /\ cycle_count = 1
    /\ v[0] = 1 /\ i = 0
    /\ v[15] = 1

(* C18: Bnnn sets PC to the low 12 bits of nnn + V0, so PC after a Bnnn is *)
(* in 0x000..0xFFF.                                                        *)
C18_Jp0Low12Bits ==
    [][(last'.op = "tick" /\ IsJp0(last'.word)) =>
          /\ pc' = (from_op(last'.word).nnn + v[0]) % 4096
          /\ pc' <= 4095]_vars

\* The same for the sums that fit 12 bits
C18_Jp0UnlessPast0FFF ==
    [][(last'.op = "tick" /\ IsJp0(last'.word)
            /\ from_op(last'.word).nnn + v[0] <= 4095) =>
          /\ ~panicked'
          /\ pc' = from_op(last'.word).nnn + v[0]]_vars

(* C19: Ex9E advances PC by an extra 2 iff keypad[V[x] & 0xF] is true and  *)
(* ExA1 iff it is false, for every V[x] in 0..255; neither is ever fatal.  *)
C19_SkipOnLowNibble ==
    [][/\ (last'.op = "tick" /\ IsSkp(last'.word)) =>
              /\ ~panicked'
              /\ pc' = pc + 2 + (IF key_state[v[from_op(last'.word).x] % 16] THEN 2 ELSE 0)
       /\ (last'.op = "tick" /\ IsSknp(last'.word)) =>
              /\ ~panicked'
              /\ pc' = pc + 2 + (IF key_state[v[from_op(last'.word).x] % 16] THEN 0 ELSE 2)]_vars

\* The same for V[x] in 0..15, and the keypad after each key event
C19_SkipUnlessPast15 ==
    [][/\ (last'.op = "tick" /\ IsSkp(last'.word) /\ v[from_op(last'.word).x] <= 15) =>
              /\ ~panicked'
              /\ pc' = pc + 2 + (IF key_state[v[from_op(last'.word).x]] THEN 2 ELSE 0)
       /\ (last'.op = "tick" /\ IsSknp(last'.word) /\ v[from_op(last'.word).x] <= 15) =>
              /\ ~panicked'
              /\ pc' = pc + 2 + (IF key_state[v[from_op(last'.word).x]] THEN 0 ELSE 2)
       /\ last'.op = "set_key_pressed" => key_state' = [key_state EXCEPT ![last'.key] = TRUE]
       /\ last'.op = "set_key_released" => key_state' = [key_state EXCEPT ![last'.key] = FALSE]
       /\ last'.op = "tick" => key_state' = key_state]_vars

\* The instruction table as the claim lists it: every 16-bit word but 5xyN
\* and 9xyN with N # 0, 8xyN with N in {8, 9, A, B, C, D, F}, Exkk other
\* than Ex9E and ExA1, Fxkk other than Fx07/0A/15/18/1E/29/33/55/65
InTable(w) ==
    LET op == from_op(w)
    IN  ~ \/ op.a = 5 /\ op.n # 0
          \/ op.a = 9 /\ op.n # 0
          \/ op.a = 8 /\ op.n \in {8, 9, 10, 11, 12, 13, 15}
          \/ op.a = 14 /\ op.kk \notin {158, 161}
          \/ op.a = 15 /\ op.kk \notin {7, 10, 21, 24, 30, 41, 51, 85, 101}

\* Over all 65536 words, the last arm is taken by the words outside the table
DecodeAllWords == \A w \in 0..65535 : InTable(w) <=> ~Unidentified(w)

(* C20: a tick whose fetched word is not in the instruction table is       *)
(* fatal; every other word is dispatched to an instruction, and is fatal   *)
(* only where that instruction fails (RET, CALL, or an index into memory   *)
(* or the keypad); 00E0 and 00EE are dispatched as CLS and RET, the other  *)
(* 0nnn as the SYS no-op.                                                  *)
C20_UnknownOpcodesFatal ==
    [][(last'.op = "tick" /\ last'.word # NoWord) =>
          LET w == last'.word
          IN  /\ ~InTable(w) => (panicked' /\ Unidentified(w))
              /\ InTable(w) => ~Unidentified(w)
              /\ DecodeAllWords
              /\ (InTable(w) /\ panicked') =>
                     \/ IsRet(w) \/ IsCall(w) \/ IsDrw(w) \/ IsSkp(w) \/ IsSknp(w)
                     \/ IsLdb(w) \/ IsLdix(w) \/ IsLdxi(w)
              /\ IsCls(w) => (~panicked' /\ display' = {} /\ has_disp_update')
              /\ IsRet(w) => IF sp = 0 THEN panicked'
                             ELSE ~panicked' /\ pc' = stack[sp] /\ sp' = sp - 1
              /\ (from_op(w).a = 0 /\ ~IsCls(w) /\ ~IsRet(w)) =>
                     /\ ~panicked' /\ ~has_disp_update'
                     /\ pc' = pc + 2 /\ sp' = sp /\ display' = display]_vars

\* The first tick fetched 8xyF, which is in no arm, and the process has
\* panicked.
C20_Witness ==
    /\ last.op = "tick" /\ last.word # NoWord
    /\ from_op(last.word).a = 8 /\ from_op(last.word).n = 15
    /\ panicked
    /\ cycle_count = 0

(* C21: loading a program of more than 3584 bytes fails with an error and  *)
(* loads no truncated prefix; loading a program of at most 3584 bytes      *)
(* writes it to memory from 0x200 on and leaves memory[0x000..0x200], the  *)
(* font included, unchanged.                                               *)
C21_OversizedRomRejected ==
    [][last'.op = "load_rom" =>
          LET len == last'.len
          IN  /\ len > MemSize - RomBase => panicked'
              /\ len <= MemSize - RomBase =>
                     /\ ~panicked'
                     /\ \A k \in 1..len : Peek(memory', RomBase + k - 1) = RomFile(len)[k]
                     /\ \A a \in 0..(RomBase - 1) : Peek(memory', a) = Peek(memory, a)]_vars

\* What load_rom does with a file of any length: it returns, with the bytes
\* of the file that fit memory[512..] written there and nothing else changed
C21_LoadRomTakesWhatFits ==
    [][last'.op = "load_rom" =>
          LET len == last'.len
          IN  /\ ~panicked'
              /\ \A a \in RomBase..(MemSize - 1) :
                     Peek(memory', a) = IF a - RomBase + 1 <= len
                                        THEN RomFile(len)[a - RomBase + 1]
                                        ELSE Peek(memory, a)
              /\ \A a \in 0..(RomBase - 1) : Peek(memory', a) = Peek(memory, a)
              /\ UNCHANGED <<v, i, pc, sp, stack, display, key_state, waiting, cycle_count>>]_vars

(* C22: a memory access at an index >= 4096 is fatal and never wraps to    *)
(* low memory: Fx33 with I + 2 >= 4096, Fx55 and Fx65 with I + x >= 4096,  *)
(* DRW of n >= 1 rows with I + n - 1 >= 4096, and the fetch of a tick with *)
(* PC + 1 >= 4096 all end the process; the bytes below I and the registers *)
(* whose byte lies past the end keep their values.                         *)
C22_OutOfRangeFatal ==
    [][last'.op = "tick" =>
          LET w == last'.word
              x == from_op(w).x
              n == from_op(w).n
              below == 0..((IF i < MemSize THEN i ELSE MemSize) - 1)
          IN  /\ (waiting = None /\ pc + 1 >= MemSize) =>
                     (panicked' /\ w = NoWord)
              /\ (IsLdb(w) /\ i + 2 >= MemSize) =>
                     /\ panicked'
                     /\ \A a \in below : Peek(memory', a) = Peek(memory, a)
              /\ (IsLdix(w) /\ i + x >= MemSize) =>
                     /\ panicked'
                     /\ \A a \in below : Peek(memory', a) = Peek(memory, a)
              /\ (IsLdxi(w) /\ i + x >= MemSize) =>
                     /\ panicked'
                     /\ \A r \in 0..(NumRegs - 1) : i + r >= MemSize => v'[r] = v[r]
              /\ (IsDrw(w) /\ n >= 1 /\ i + n - 1 >= MemSize) =>
                     panicked']_vars

\* SE V0,0 at 0xFFE has skipped to 0x1002 and the tick after it has
\* panicked on its fetch.
C22_Witness ==
    /\ last.op = "tick" /\ last.word = NoWord
    /\ panicked
    /\ waiting = None
    /\ FetchWord(memory, 4094) = 12288
    /\ pc = 4100

\* The instructions that write VF as a flag: 8xy4, 8xy5, 8xy6, 8xy7, 8xyE,
\* Dxyn and Fx1E
WritesFlag(w) ==
    IsAdd(w) \/ IsSub(w) \/ IsShr(w) \/ IsSubn(w) \/ IsShl(w) \/ IsDrw(w) \/ IsAddi(w)

(* C23: immediately after an instruction that writes VF as a flag (8xy4,   *)
(* 8xy5, 8xy6, 8xy7, 8xyE, Dxyn, Fx1E) VF is 0 or 1, for every x in 0..15, *)
(* x = F included, and every prior register value.                         *)
C23_FlagIsBit ==
    [][(last'.op = "tick" /\ WritesFlag(last'.word) /\ ~panicked') =>
          v'[15] \in {0, 1}]_vars

\* The same for every instruction of the list but 8xyE with x = F
C23_FlagIsBitUnlessShlVF ==
    [][(last'.op = "tick" /\ WritesFlag(last'.word) /\ ~panicked'
            /\ ~(IsShl(last'.word) /\ from_op(last'.word).x = 15)) =>
          v'[15] \in {0, 1}]_vars

====
